---- MODULE Spec2Model ----
(***************************************************************************)
(* Model of gcc/tree-ssa-cmp.cc: the GIMPLE pass "cmp" that rewrites       *)
(* (x - y) CMP 0 to x CMP y and 0 CMP (x - y) to y CMP x for signed        *)
(* integers, CMP in <, <=, >, >=.                                          *)
(*                                                                         *)
(* A function body is a map from basic-block index to its statement        *)
(* sequence; a statement is a record [gc, subcode, ops] as in gimple.h     *)
(* (ops[1] is the lhs of an assignment or of a condition).  Trees are      *)
(* records tagged by their tree code.                                      *)
(***************************************************************************)
EXTENDS Integers, Sequences, FiniteSets, TLC

VARIABLES
    flag_tree_cmp,  \* -ftree-cmp
    flag_wrapv,     \* -fwrapv
    succs,          \* CFG: block -> set of successor blocks
    body,           \* block -> sequence of statements
    dom_sons,       \* dominance info: block -> sequence of dominator-tree sons
    worklist,       \* the dominator walker's stack
    pc,             \* "idle" | "walk" | "done"
    invocations,    \* pass invocations by the pass manager so far
    execs,          \* completed executions of pass_cmp::execute
    orig,           \* history: the body the first invocation was given
    visits,         \* history: block -> calls of after_dom_children in this execution
    calls,          \* history: position -> calls of optimize_signed_comparison on it
    env             \* run-time values of the parameters x and y (for evaluation)

vars == <<flag_tree_cmp, flag_wrapv, succs, body, dom_sons, worklist, pc,
          invocations, execs, orig, visits, calls, env>>

\* ------------------------------------------------------------------ bounds

\* Pass invocations on the same function body.
MaxRuns == 2
\* Precision in bits of the model's "int"; "long" has one bit more.
Prec == 2

\* ------------------------------------------------------------------ trees

\* The part of tree.def's code numbering the pass relies on: the four ordered
\* comparisons are contiguous, everything else lies outside LT_EXPR..GE_EXPR.
TreeCodeOrder ==
    <<"ERROR_MARK", "INTEGER_CST", "REAL_CST", "PLUS_EXPR", "MINUS_EXPR",
      "LT_EXPR", "LE_EXPR", "GT_EXPR", "GE_EXPR", "LTGT_EXPR", "EQ_EXPR",
      "NE_EXPR", "SSA_NAME">>

TreeCodeNum(c) == CHOOSE i \in 1..Len(TreeCodeOrder) : TreeCodeOrder[i] = c

INT   == [tc |-> "INTEGER_TYPE", unsignedp |-> FALSE, prec |-> Prec]
LONG  == [tc |-> "INTEGER_TYPE", unsignedp |-> FALSE, prec |-> Prec + 1]
UINT  == [tc |-> "INTEGER_TYPE", unsignedp |-> TRUE,  prec |-> Prec]
FLOAT == [tc |-> "REAL_TYPE",    unsignedp |-> FALSE, prec |-> Prec]

NULL_TREE == [tc |-> "NULL_TREE"]
IntegerCst(t, v) == [tc |-> "INTEGER_CST", type |-> t, val |-> v]
RealCst(t, v) == [tc |-> "REAL_CST", type |-> t, val |-> v]
SsaName(n, t) == [tc |-> "SSA_NAME", name |-> n, type |-> t]

\* A constant of type t: floating-point constants are REAL_CSTs.
Constant(t, v) == IF t.tc = "REAL_TYPE" THEN RealCst(t, v) ELSE IntegerCst(t, v)

TREE_CODE(t) == t.tc
TREE_TYPE(t) == t.type
TYPE_UNSIGNED(t) == t.unsignedp
build2(code, t, a, b) == [tc |-> code, type |-> t, op0 |-> a, op1 |-> b]
TREE_OPERAND(t, i) == IF i = 0 THEN t.op0 ELSE t.op1

\* integer_zerop: an INTEGER_CST whose value is 0 (a REAL_CST 0.0 is not).
integer_zerop(expr) == TREE_CODE(expr) = "INTEGER_CST" /\ expr.val = 0

\* ------------------------------------------------------------- statements

GimpleAssign(lhs, rhs_code, rhs1, rhs2) ==
    [gc |-> "GIMPLE_ASSIGN", subcode |-> rhs_code, ops |-> <<lhs, rhs1, rhs2>>]
GimpleCond(code, lhs, rhs) ==
    [gc |-> "GIMPLE_COND", subcode |-> code, ops |-> <<lhs, rhs>>]
GimpleOther(kind) == [gc |-> kind, subcode |-> "ERROR_MARK", ops |-> <<>>]
GIMPLE_NOP == GimpleOther("GIMPLE_NOP")

gimple_code(stmt) == stmt.gc
is_gimple_assign(stmt) == gimple_code(stmt) = "GIMPLE_ASSIGN"
gimple_assign_rhs_code(stmt) == stmt.subcode
gimple_assign_lhs(stmt) == stmt.ops[1]
gimple_assign_rhs1(stmt) == stmt.ops[2]
gimple_assign_rhs2(stmt) == stmt.ops[3]
gimple_cond_code(stmt) == stmt.subcode
gimple_cond_lhs(stmt) == IF Len(stmt.ops) >= 1 THEN stmt.ops[1] ELSE NULL_TREE
gimple_cond_rhs(stmt) == IF Len(stmt.ops) >= 2 THEN stmt.ops[2] ELSE NULL_TREE
gimple_cond_set_lhs(stmt, t) == [stmt EXCEPT !.ops[1] = t]
gimple_cond_set_rhs(stmt, t) == [stmt EXCEPT !.ops[2] = t]

\* Positions <<block, index>> of the statements of a function body.
Positions(fn) == UNION {{<<b, i>> : i \in 1..Len(fn[b])} : b \in DOMAIN fn}

\* The positions whose statement defines the SSA name expr.
DefPositions(fn, expr) ==
    {p \in Positions(fn) :
        /\ is_gimple_assign(fn[p[1]][p[2]])
        /\ gimple_assign_lhs(fn[p[1]][p[2]]).name = expr.name}

\* SSA_NAME_DEF_STMT: the defining statement; a parameter's default
\* definition is a GIMPLE_NOP.
SSA_NAME_DEF_STMT(fn, expr) ==
    IF DefPositions(fn, expr) = {} THEN GIMPLE_NOP
    ELSE LET p == CHOOSE q \in DefPositions(fn, expr) : TRUE IN fn[p[1]][p[2]]

\* ------------------------------------------------------------ the pass

\* Mutant: the signedness of the type is not looked at.
is_signed_integer_ignores_sign(var) == TREE_CODE(TREE_TYPE(var)) = "INTEGER_TYPE"

\* True if VAR is a signed integer, false otherwise.
is_signed_integer(var) ==
    /\ TREE_CODE(TREE_TYPE(var)) = "INTEGER_TYPE"
    /\ ~TYPE_UNSIGNED(TREE_TYPE(var))

\* If EXPR is an integer zero, return it.  If EXPR is SSA_NAME, and its
\* defining statement is a subtraction of two signed integers, return the
\* MINUS_EXPR.  Otherwise, return NULL_TREE.
prop_integer_zero_or_minus_expr(fn, expr) ==
    IF integer_zerop(expr) THEN expr
    ELSE IF TREE_CODE(expr) # "SSA_NAME" THEN NULL_TREE
    ELSE LET defining_stmt == SSA_NAME_DEF_STMT(fn, expr) IN
        IF \/ ~is_gimple_assign(defining_stmt)
           \/ gimple_assign_rhs_code(defining_stmt) # "MINUS_EXPR"
        THEN NULL_TREE
        ELSE LET rhs1 == gimple_assign_rhs1(defining_stmt)
                 rhs2 == gimple_assign_rhs2(defining_stmt) IN
            IF ~is_signed_integer(rhs1) THEN NULL_TREE
            ELSE IF ~is_signed_integer(rhs2) THEN NULL_TREE
            ELSE build2("MINUS_EXPR", TREE_TYPE(expr), rhs1, rhs2)

\* update_stmt refreshes the statement's operand caches; the statement's
\* code and operands are what they were set to.
update_stmt(stmt) == stmt

\* The statement of fn at block bb, index i, replaced by stmt.
SetStmt(fn, bb, i, stmt) == [fn EXCEPT ![bb][i] = stmt]

\* Mutant: case 2 substitutes x CMP y, as case 1 does, instead of y CMP x.
optimize_signed_comparison_unswapped(fn, bb, i) ==
    LET stmt == fn[bb][i]
        code == gimple_cond_code(stmt)
    IN
    IF \/ TreeCodeNum(code) < TreeCodeNum("LT_EXPR")
       \/ TreeCodeNum("GE_EXPR") < TreeCodeNum(code)
    THEN fn
    ELSE LET lhs == prop_integer_zero_or_minus_expr(fn, gimple_cond_lhs(stmt)) IN
    IF lhs = NULL_TREE THEN fn
    ELSE LET rhs == prop_integer_zero_or_minus_expr(fn, gimple_cond_rhs(stmt)) IN
    IF rhs = NULL_TREE THEN fn
    ELSE IF TREE_CODE(lhs) = "MINUS_EXPR" /\ integer_zerop(rhs)
    THEN LET x == TREE_OPERAND(lhs, 0)
             y == TREE_OPERAND(lhs, 1)
         IN SetStmt(fn, bb, i, gimple_cond_set_rhs(gimple_cond_set_lhs(stmt, x), y))
    ELSE IF integer_zerop(lhs) /\ TREE_CODE(rhs) = "MINUS_EXPR"
    THEN LET x == TREE_OPERAND(rhs, 0)
             y == TREE_OPERAND(rhs, 1)
         IN SetStmt(fn, bb, i, gimple_cond_set_rhs(gimple_cond_set_lhs(stmt, x), y))
    ELSE fn

\* Mutant: case 1 sets the left operand and leaves the 0 on the right.
optimize_signed_comparison_lhs_only(fn, bb, i) ==
    LET stmt == fn[bb][i]
        code == gimple_cond_code(stmt)
    IN
    IF \/ TreeCodeNum(code) < TreeCodeNum("LT_EXPR")
       \/ TreeCodeNum("GE_EXPR") < TreeCodeNum(code)
    THEN fn
    ELSE LET lhs == prop_integer_zero_or_minus_expr(fn, gimple_cond_lhs(stmt)) IN
    IF lhs = NULL_TREE THEN fn
    ELSE LET rhs == prop_integer_zero_or_minus_expr(fn, gimple_cond_rhs(stmt)) IN
    IF rhs = NULL_TREE THEN fn
    ELSE IF TREE_CODE(lhs) = "MINUS_EXPR" /\ integer_zerop(rhs)
    THEN LET x == TREE_OPERAND(lhs, 0)
             y == TREE_OPERAND(lhs, 1)
         IN SetStmt(fn, bb, i, gimple_cond_set_lhs(stmt, x))
    ELSE IF integer_zerop(lhs) /\ TREE_CODE(rhs) = "MINUS_EXPR"
    THEN LET x == TREE_OPERAND(rhs, 0)
             y == TREE_OPERAND(rhs, 1)
         IN SetStmt(fn, bb, i, gimple_cond_set_rhs(gimple_cond_set_lhs(stmt, y), x))
    ELSE fn

\* Mutant: case 2 keeps the operand order x, y and mirrors the operator.
optimize_signed_comparison_flips_code(fn, bb, i) ==
    LET stmt == fn[bb][i]
        code == gimple_cond_code(stmt)
    IN
    IF \/ TreeCodeNum(code) < TreeCodeNum("LT_EXPR")
       \/ TreeCodeNum("GE_EXPR") < TreeCodeNum(code)
    THEN fn
    ELSE LET lhs == prop_integer_zero_or_minus_expr(fn, gimple_cond_lhs(stmt)) IN
    IF lhs = NULL_TREE THEN fn
    ELSE LET rhs == prop_integer_zero_or_minus_expr(fn, gimple_cond_rhs(stmt)) IN
    IF rhs = NULL_TREE THEN fn
    ELSE IF TREE_CODE(lhs) = "MINUS_EXPR" /\ integer_zerop(rhs)
    THEN LET x == TREE_OPERAND(lhs, 0)
             y == TREE_OPERAND(lhs, 1)
         IN SetStmt(fn, bb, i, gimple_cond_set_rhs(gimple_cond_set_lhs(stmt, x), y))
    ELSE IF integer_zerop(lhs) /\ TREE_CODE(rhs) = "MINUS_EXPR"
    THEN LET x == TREE_OPERAND(rhs, 0)
             y == TREE_OPERAND(rhs, 1)
         IN SetStmt(fn, bb, i,
              [gimple_cond_set_rhs(gimple_cond_set_lhs(stmt, x), y)
                 EXCEPT !.subcode = CASE code = "LT_EXPR" -> "GT_EXPR"
                                      [] code = "LE_EXPR" -> "GE_EXPR"
                                      [] code = "GT_EXPR" -> "LT_EXPR"
                                      [] OTHER -> "LE_EXPR"])
    ELSE fn

\* fn with the defining statement of the SSA name v replaced by a no-op.
WithoutDef(fn, v) ==
    [b \in DOMAIN fn |->
        [j \in 1..Len(fn[b]) |->
            IF <<b, j>> \in DefPositions(fn, v) THEN GIMPLE_NOP ELSE fn[b][j]]]

\* Mutant: the subtraction is removed as soon as one comparison of it is
\* rewritten.
optimize_signed_comparison_removes_def(fn, bb, i) ==
    LET stmt == fn[bb][i]
        code == gimple_cond_code(stmt)
    IN
    IF \/ TreeCodeNum(code) < TreeCodeNum("LT_EXPR")
       \/ TreeCodeNum("GE_EXPR") < TreeCodeNum(code)
    THEN fn
    ELSE LET lhs == prop_integer_zero_or_minus_expr(fn, gimple_cond_lhs(stmt)) IN
    IF lhs = NULL_TREE THEN fn
    ELSE LET rhs == prop_integer_zero_or_minus_expr(fn, gimple_cond_rhs(stmt)) IN
    IF rhs = NULL_TREE THEN fn
    ELSE IF TREE_CODE(lhs) = "MINUS_EXPR" /\ integer_zerop(rhs)
    THEN LET x == TREE_OPERAND(lhs, 0)
             y == TREE_OPERAND(lhs, 1)
         IN WithoutDef(SetStmt(fn, bb, i, gimple_cond_set_rhs(gimple_cond_set_lhs(stmt, x), y)), gimple_cond_lhs(stmt))
    ELSE IF integer_zerop(lhs) /\ TREE_CODE(rhs) = "MINUS_EXPR"
    THEN LET x == TREE_OPERAND(rhs, 0)
             y == TREE_OPERAND(rhs, 1)
         IN WithoutDef(SetStmt(fn, bb, i, gimple_cond_set_rhs(gimple_cond_set_lhs(stmt, y), x)), gimple_cond_rhs(stmt))
    ELSE fn

\* Optimize (x - y) CMP 0 to x CMP y and 0 CMP (x - y) to y CMP x where CMP
\* is either <, <=, >, or >=.  The statement is the one at block bb, index i.
optimize_signed_comparison(fn, bb, i) ==
    LET stmt == fn[bb][i]
        code == gimple_cond_code(stmt)
    IN
    IF \/ TreeCodeNum(code) < TreeCodeNum("LT_EXPR")
       \/ TreeCodeNum("GE_EXPR") < TreeCodeNum(code)
    THEN fn
    ELSE LET lhs == prop_integer_zero_or_minus_expr(fn, gimple_cond_lhs(stmt)) IN
    IF lhs = NULL_TREE THEN fn
    ELSE LET rhs == prop_integer_zero_or_minus_expr(fn, gimple_cond_rhs(stmt)) IN
    IF rhs = NULL_TREE THEN fn
    ELSE IF TREE_CODE(lhs) = "MINUS_EXPR" /\ integer_zerop(rhs)
    THEN \* Case 1: (x - y) CMP 0  =>  x CMP y
        LET x == TREE_OPERAND(lhs, 0)
            y == TREE_OPERAND(lhs, 1)
        IN SetStmt(fn, bb, i,
             update_stmt(gimple_cond_set_rhs(gimple_cond_set_lhs(stmt, x), y)))
    ELSE IF integer_zerop(lhs) /\ TREE_CODE(rhs) = "MINUS_EXPR"
    THEN \* Case 2: 0 CMP (x - y)  =>  y CMP x
        LET x == TREE_OPERAND(rhs, 0)
            y == TREE_OPERAND(rhs, 1)
        IN SetStmt(fn, bb, i,
             update_stmt(gimple_cond_set_rhs(gimple_cond_set_lhs(stmt, y), x)))
    ELSE fn

\* Mutant: the gate does not look at -fwrapv.
gate_ignores_wrapv == flag_tree_cmp # 0

\* pass_cmp::gate
gate == flag_tree_cmp # 0 /\ flag_wrapv = 0

\* gsi_after_labels: the index of the first statement of bb that is no label.
gsi_after_labels(fn, bb) ==
    IF \E i \in 1..Len(fn[bb]) : gimple_code(fn[bb][i]) # "GIMPLE_LABEL"
    THEN CHOOSE i \in 1..Len(fn[bb]) :
            /\ gimple_code(fn[bb][i]) # "GIMPLE_LABEL"
            /\ \A j \in 1..(i - 1) : gimple_code(fn[bb][j]) = "GIMPLE_LABEL"
    ELSE Len(fn[bb]) + 1

\* Mutant: every statement of the block is handed to the rewriter.
handed_to_rewriter_any(stmt) == gimple_code(stmt) # "GIMPLE_LABEL"

\* The test of after_dom_children's loop body: which statements are handed
\* to optimize_signed_comparison.
handed_to_rewriter(stmt) == gimple_code(stmt) = "GIMPLE_COND"

\* The loop of cmp_dom_walker::after_dom_children from iterator position i.
RECURSIVE stmt_loop(_, _, _)
stmt_loop(fn, bb, i) ==
    IF i > Len(fn[bb]) THEN fn
    ELSE stmt_loop(IF handed_to_rewriter(fn[bb][i])
                   THEN optimize_signed_comparison(fn, bb, i)
                   ELSE fn,
                   bb, i + 1)

\* cmp_dom_walker::after_dom_children
after_dom_children(fn, bb) == stmt_loop(fn, bb, gsi_after_labels(fn, bb))

\* The positions of bb whose statement after_dom_children hands to
\* optimize_signed_comparison.
HandedPositions(fn, bb) ==
    {<<bb, i>> : i \in {j \in gsi_after_labels(fn, bb)..Len(fn[bb]) :
                          handed_to_rewriter(fn[bb][j])}}

\* ----------------------------------------------------- CFG and dominance

\* ENTRY_BLOCK_PTR_FOR_FN: the entry block has index 0 (the exit block 1).
ENTRY_BLOCK == 0

\* The blocks reachable from the blocks of seen along CFG edges.
RECURSIVE ReachFrom(_, _)
ReachFrom(cfg, seen) ==
    LET nxt == seen \cup UNION {cfg[b] : b \in seen}
    IN IF nxt = seen THEN seen ELSE ReachFrom(cfg, nxt)

Reachable(cfg) == ReachFrom(cfg, {ENTRY_BLOCK})

\* The greatest solution of  Dom(entry) = {entry},
\* Dom(b) = {b} \cup the intersection of Dom over b's predecessors,
\* reached by iteration from D.
RECURSIVE DominatorsFrom(_, _)
DominatorsFrom(cfg, D) ==
    LET N == [b \in DOMAIN cfg |->
                IF b = ENTRY_BLOCK THEN {ENTRY_BLOCK}
                ELSE {b} \cup {a \in DOMAIN cfg :
                                 \A p \in DOMAIN cfg : b \in cfg[p] => a \in D[p]}]
    IN IF N = D THEN D ELSE DominatorsFrom(cfg, N)

\* Each block's dominators: the blocks every control path from the entry to
\* it passes through.
Dominators(cfg) == DominatorsFrom(cfg, [b \in DOMAIN cfg |-> DOMAIN cfg])

\* The immediate dominator of b, given the dominator sets D: the strict
\* dominator that all strict dominators dominate.
ImmediateDominator(D, b) ==
    CHOOSE a \in D[b] \ {b} : \A c \in D[b] \ {b} : c \in D[a]

\* A finite set of numbers as an ascending sequence.
RECURSIVE Ascending(_)
Ascending(S) ==
    IF S = {} THEN <<>>
    ELSE LET m == CHOOSE a \in S : \A b \in S : a <= b
         IN <<m>> \o Ascending(S \ {m})

\* calculate_dominance_info (CDI_DOMINATORS): each block's dominator-tree
\* sons, in the order first_dom_son / next_dom_son give them.
calculate_dominance_info(cfg) ==
    LET D == Dominators(cfg)
        R == Reachable(cfg) \ {ENTRY_BLOCK}
    IN [b \in DOMAIN cfg |->
          Ascending({c \in R : ImmediateDominator(D, c) = b})]

\* The SSA names a statement uses.
UsedNames(stmt) ==
    LET used == IF is_gimple_assign(stmt)
                THEN {gimple_assign_rhs1(stmt), gimple_assign_rhs2(stmt)}
                ELSE IF gimple_code(stmt) = "GIMPLE_COND"
                THEN {gimple_cond_lhs(stmt), gimple_cond_rhs(stmt)}
                ELSE {}
    IN {t \in used : TREE_CODE(t) = "SSA_NAME"}

\* The definition at position q reaches the use at position p: earlier in the
\* same block, or in a strictly dominating block (D: the dominator sets).
DefDominatesUse(D, q, p) ==
    \/ q[1] = p[1] /\ q[2] < p[2]
    \/ q[1] # p[1] /\ q[1] \in D[p[1]]

\* PROP_ssa: every name has at most one defining statement, and every use of
\* a name defined by a statement is dominated by that statement (a name with
\* no defining statement is a parameter's default definition).
SSAValid(fn, cfg) ==
    LET D == Dominators(cfg) IN
    /\ \A p \in Positions(fn), q \in Positions(fn) :
          (/\ is_gimple_assign(fn[p[1]][p[2]])
           /\ is_gimple_assign(fn[q[1]][q[2]])
           /\ gimple_assign_lhs(fn[p[1]][p[2]]).name
                = gimple_assign_lhs(fn[q[1]][q[2]]).name) => p = q
    /\ \A p \in Positions(fn) : \A u \in UsedNames(fn[p[1]][p[2]]) :
          \A q \in DefPositions(fn, u) : DefDominatesUse(D, q, p)

\* ------------------------------------------------------- function bodies

\* The bodies the pass is run on follow the testcase's f1..f4 (two
\* conditions on the parameters x, y and on differences of them):
\*     e = y - x;  d = <a> <rhs_code> <b>;  if (<c1>) foo ();  if (<c2>) bar ();
\* A template names the CFG shape ("seq": the two ifs in sequence, "nest":
\* the second inside the first), the block holding d's definition, the types
\* of x and y, d's definition and the two conditions.  Operands are named by
\* tokens: the SSA names "x", "y", "d", "e" and the constants "0", "1".
Shapes == {"seq", "nest"}
DLocs == {"first", "second"}
TypePairs == {<<INT, INT>>, <<INT, LONG>>, <<UINT, UINT>>, <<FLOAT, FLOAT>>,
              <<INT, UINT>>}
DVariants == {<<"x", "y", "MINUS_EXPR">>, <<"x", "y", "PLUS_EXPR">>,
              <<"e", "0", "MINUS_EXPR">>, <<"e", "y", "MINUS_EXPR">>}
CondCodes == {"LT_EXPR", "LE_EXPR", "GT_EXPR", "GE_EXPR", "EQ_EXPR", "NE_EXPR"}
Conds1 == CondCodes \X {"d", "e", "x", "0"} \X {"d", "y", "0", "1"}
Conds2 == {<<"LT_EXPR", "d", "0">>, <<"LT_EXPR", "x", "y">>,
           <<"GE_EXPR", "0", "e">>, <<"NE_EXPR", "d", "0">>}

\* The worked example f1: d = x - y; if (d > 0) foo (); if (d < 0) bar ();
F1Template ==
    [shape |-> "seq", dloc |-> "first", tp |-> <<INT, INT>>,
     dv |-> <<"x", "y", "MINUS_EXPR">>, c1 |-> <<"GT_EXPR", "d", "0">>,
     c2 |-> <<"LT_EXPR", "d", "0">>]

AllTemplates ==
    [shape : Shapes, dloc : DLocs, tp : TypePairs, dv : DVariants,
     c1 : Conds1, c2 : Conds2]

\* The templates checked: f1 with its first condition varied (under every
\* definition of d, or with every second condition), with its types varied,
\* and with its CFG and d's placement varied.
Templates ==
    {t \in AllTemplates :
        \/ /\ t.shape = F1Template.shape /\ t.dloc = F1Template.dloc
           /\ t.tp = F1Template.tp
           /\ (t.c2 = F1Template.c2 \/ t.dv = F1Template.dv)
        \/ /\ t.shape = F1Template.shape /\ t.dloc = F1Template.dloc
           /\ t.c1 \in {<<"GT_EXPR", "d", "0">>, <<"LE_EXPR", "0", "d">>,
                        <<"GT_EXPR", "e", "0">>}
           /\ t.c2 = F1Template.c2
        \/ /\ t.tp = F1Template.tp
           /\ t.c1[1] = "GT_EXPR"
           /\ t.c1[2] \in {"d", "e", "0"} /\ t.c1[3] \in {"d", "0"}}

IsName(tok) == tok \in {"x", "y", "d", "e"}

\* The type of the SSA name tok: e = y - x and d take their first operand's.
NameType(t, tok) ==
    LET base(n) == IF n = "x" THEN t.tp[1] ELSE t.tp[2]
    IN IF tok = "d"
       THEN (IF IsName(t.dv[1]) THEN base(t.dv[1]) ELSE base(t.dv[2]))
       ELSE base(tok)

\* The operand tok of a statement whose other operand is partner: a constant
\* has the type of the other operand.
TokTree(t, tok, partner) ==
    IF IsName(tok) THEN SsaName(tok, NameType(t, tok))
    ELSE Constant(IF IsName(partner) THEN NameType(t, partner) ELSE INT,
                  IF tok = "0" THEN 0 ELSE 1)

EDef(t) ==
    GimpleAssign(SsaName("e", NameType(t, "e")), "MINUS_EXPR",
                 SsaName("y", t.tp[2]), SsaName("x", t.tp[1]))
DDef(t) ==
    GimpleAssign(SsaName("d", NameType(t, "d")), t.dv[3],
                 TokTree(t, t.dv[1], t.dv[2]), TokTree(t, t.dv[2], t.dv[1]))
MkCond(t, c) == GimpleCond(c[1], TokTree(t, c[2], c[3]), TokTree(t, c[3], c[2]))

\* The block of the first condition and the block of the second.
Cond1Block == 2
Cond2Block(shape) == IF shape = "seq" THEN 4 ELSE 3

MkSuccs(shape) ==
    IF shape = "seq"
    THEN (0 :> {2}) @@ (1 :> {}) @@ (2 :> {3, 4}) @@ (3 :> {4})
         @@ (4 :> {5, 6}) @@ (5 :> {6}) @@ (6 :> {1})
    ELSE (0 :> {2}) @@ (1 :> {}) @@ (2 :> {3, 6}) @@ (3 :> {4, 5})
         @@ (4 :> {6}) @@ (5 :> {6}) @@ (6 :> {1})

MkBody(t) ==
    LET d1 == IF t.dloc = "first" THEN <<DDef(t)>> ELSE <<>>
        d2 == IF t.dloc = "second" THEN <<DDef(t)>> ELSE <<>>
        b2 == <<EDef(t)>> \o d1 \o <<MkCond(t, t.c1)>>
        foo == <<GimpleOther("GIMPLE_CALL")>>
        bar == <<GimpleOther("GIMPLE_CALL")>>
        ret == <<GimpleOther("GIMPLE_RETURN")>>
        lab == <<GimpleOther("GIMPLE_LABEL")>>
    IN IF t.shape = "seq"
       THEN (0 :> <<>>) @@ (1 :> <<>>) @@ (2 :> b2) @@ (3 :> foo)
            @@ (4 :> lab \o d2 \o <<MkCond(t, t.c2)>>) @@ (5 :> bar)
            @@ (6 :> ret)
       ELSE (0 :> <<>>) @@ (1 :> <<>>) @@ (2 :> b2)
            @@ (3 :> d2 \o <<MkCond(t, t.c2)>>) @@ (4 :> foo) @@ (5 :> bar)
            @@ (6 :> lab \o ret)

\* The templates whose body is in SSA form (the pass requires PROP_ssa).
ValidTemplates == {t \in Templates : SSAValid(MkBody(t), MkSuccs(t.shape))}

\* ------------------------------------------------------------ behaviour

Blocks == DOMAIN succs

\* The state before the pass manager's first invocation of the pass on the
\* function built from template t, under the flags ftc, fw, with the
\* parameters' run-time values vx, vy.
InitWith(t, ftc, fw, vx, vy) ==
    /\ flag_tree_cmp = ftc
    /\ flag_wrapv = fw
    /\ succs = MkSuccs(t.shape)
    /\ body = MkBody(t)
    /\ orig = MkBody(t)
    /\ dom_sons = [b \in DOMAIN MkSuccs(t.shape) |-> <<>>]
    /\ worklist = <<>>
    /\ pc = "idle"
    /\ invocations = 0
    /\ execs = 0
    /\ visits = [b \in DOMAIN MkSuccs(t.shape) |-> 0]
    /\ calls = [p \in Positions(MkBody(t)) |-> 0]
    /\ env = [x |-> vx, y |-> vy]

Init == \E t \in ValidTemplates, ftc \in {0, 1}, fw \in {0, 1} : InitWith(t, ftc, fw, 0, 0)

\* The pass manager finds the gate closed and skips the pass.
SkipPass ==
    /\ pc \in {"idle", "done"}
    /\ invocations < MaxRuns
    /\ ~gate
    /\ invocations' = invocations + 1
    /\ UNCHANGED <<flag_tree_cmp, flag_wrapv, succs, body, dom_sons, worklist,
                   pc, execs, orig, visits, calls, env>>

\* pass_cmp::execute up to the start of the walk: dominance info is computed
\* and the walker is started on the entry block.
Execute ==
    /\ pc \in {"idle", "done"}
    /\ invocations < MaxRuns
    /\ gate
    /\ invocations' = invocations + 1
    /\ dom_sons' = calculate_dominance_info(succs)
    /\ worklist' = <<[bb |-> ENTRY_BLOCK, post |-> FALSE]>>
    /\ pc' = "walk"
    /\ visits' = [b \in Blocks |-> 0]
    /\ calls' = [p \in DOMAIN calls |-> 0]
    /\ UNCHANGED <<flag_tree_cmp, flag_wrapv, succs, body, execs, orig, env>>

\* The walker reaches a block: the block is kept on the stack to be finished
\* after its dominator-tree sons, which are pushed above it.
Descend ==
    /\ pc = "walk"
    /\ worklist # <<>>
    /\ LET top == worklist[Len(worklist)] IN
        /\ ~top.post
        /\ worklist' = SubSeq(worklist, 1, Len(worklist) - 1)
                       \o <<[bb |-> top.bb, post |-> TRUE]>>
                       \o [i \in 1..Len(dom_sons[top.bb]) |->
                              [bb |-> dom_sons[top.bb][i], post |-> FALSE]]
    /\ UNCHANGED <<flag_tree_cmp, flag_wrapv, succs, body, dom_sons, pc,
                   invocations, execs, orig, visits, calls, env>>

\* The walker has finished a block's sons and calls after_dom_children on it.
AfterDomChildren ==
    /\ pc = "walk"
    /\ worklist # <<>>
    /\ LET top == worklist[Len(worklist)] IN
        /\ top.post
        /\ worklist' = SubSeq(worklist, 1, Len(worklist) - 1)
        /\ body' = after_dom_children(body, top.bb)
        /\ visits' = [visits EXCEPT ![top.bb] = @ + 1]
        /\ calls' = [p \in DOMAIN calls |->
                        IF p \in HandedPositions(body, top.bb)
                        THEN calls[p] + 1 ELSE calls[p]]
    /\ UNCHANGED <<flag_tree_cmp, flag_wrapv, succs, dom_sons, pc,
                   invocations, execs, orig, env>>

\* The walk is exhausted and execute returns.
WalkDone ==
    /\ pc = "walk"
    /\ worklist = <<>>
    /\ pc' = "done"
    /\ execs' = execs + 1
    /\ UNCHANGED <<flag_tree_cmp, flag_wrapv, succs, body, dom_sons, worklist,
                   invocations, orig, visits, calls, env>>

Next == SkipPass \/ Execute \/ Descend \/ AfterDomChildren \/ WalkDone

Spec == Init /\ [][Next]_vars

\* The walk under every CFG shape, placement of d and second condition.
InitWalk ==
    \E t \in {u \in ValidTemplates : u.tp = F1Template.tp /\ u.c1[1] = "GT_EXPR"},
       ftc \in {0, 1}, fw \in {0, 1} : InitWith(t, ftc, fw, 0, 0)

\* Once started, execute runs to completion without yielding (the pass is
\* single-threaded and synchronous); the pass manager need not invoke again.
FairSpec ==
    /\ InitWalk /\ [][Next]_vars
    /\ WF_vars(Descend \/ AfterDomChildren \/ WalkDone)

\* ------------------------------------------------- visiting in any order

\* optimize_signed_comparison is applied to some condition not yet visited.
VisitAny ==
    /\ \E p \in DOMAIN calls :
          /\ calls[p] = 0
          /\ gimple_code(body[p[1]][p[2]]) = "GIMPLE_COND"
          /\ body' = optimize_signed_comparison(body, p[1], p[2])
          /\ calls' = [calls EXCEPT ![p] = 1]
    /\ UNCHANGED <<flag_tree_cmp, flag_wrapv, succs, dom_sons, worklist, pc,
                   invocations, execs, orig, visits, env>>

InitAnyOrder == \E t \in ValidTemplates : InitWith(t, 1, 0, 0, 0)

SpecAnyOrder == InitAnyOrder /\ [][VisitAny]_vars

\* The blocks in the order the walker calls after_dom_children on them: the
\* subtrees of a block's sons, last son first, then the block.
RECURSIVE DomWalkOrder(_, _)
DomWalkOrder(sons, b) ==
    LET sub[i \in 0..Len(sons[b])] ==
            IF i = 0 THEN <<>>
            ELSE DomWalkOrder(sons, sons[b][i]) \o sub[i - 1]
    IN sub[Len(sons[b])] \o <<b>>

RECURSIVE ApplyBlocks(_, _)
ApplyBlocks(fn, order) ==
    IF order = <<>> THEN fn
    ELSE ApplyBlocks(after_dom_children(fn, Head(order)), Tail(order))

\* The body one execution of the pass makes of fn.
PassResult(fn, cfg) ==
    ApplyBlocks(fn, DomWalkOrder(calculate_dominance_info(cfg), ENTRY_BLOCK))

\* ------------------------------------------------- vocabulary of the claims

StmtAt(fn, p) == fn[p[1]][p[2]]
IsCond(stmt) == stmt.gc = "GIMPLE_COND"
OrderedCodes == {"LT_EXPR", "LE_EXPR", "GT_EXPR", "GE_EXPR"}
IsZero(t) == t.tc = "INTEGER_CST" /\ t.val = 0
SignedIntTyped(t) == t.type.tc = "INTEGER_TYPE" /\ ~t.type.unsignedp

\* The statements of fn that define the value v by a subtraction of two
\* signed-integer typed operands.
SignedSubDefs(fn, v) ==
    IF v.tc # "SSA_NAME" THEN {}
    ELSE {s \in {StmtAt(fn, q) : q \in Positions(fn)} :
            /\ s.gc = "GIMPLE_ASSIGN"
            /\ s.ops[1].name = v.name
            /\ s.subcode = "MINUS_EXPR"
            /\ SignedIntTyped(s.ops[2])
            /\ SignedIntTyped(s.ops[3])}

\* The statement at p is a comparison of the shape the identity is about.
MatchesIdentity(fn, p) ==
    LET s == StmtAt(fn, p) IN
    /\ IsCond(s)
    /\ s.subcode \in OrderedCodes
    /\ \/ SignedSubDefs(fn, s.ops[1]) # {} /\ IsZero(s.ops[2])
       \/ IsZero(s.ops[1]) /\ SignedSubDefs(fn, s.ops[2]) # {}

\* This step hands the statement at p to optimize_signed_comparison.
HandedNow(p) == calls'[p] = calls[p] + 1

\* The conditions of a body, in block order.
CondsOf(fn) ==
    LET ps == {p \in Positions(fn) : IsCond(StmtAt(fn, p))}
    IN {<<p[1], StmtAt(fn, p).subcode, StmtAt(fn, p).ops>> : p \in ps}

X_int == SsaName("x", INT)
Y_int == SsaName("y", INT)

\* C3: a handed ordered comparison (x - y) OP 0 becomes x OP y, and
\* 0 OP (x - y) becomes y OP x, the operator kept; and the worked bodies
\* "d = x - y; if (d > 0); if (d < 0)" and "if ((x - y) > 0); if (x < y)"
\* both end with the conditions x > y and x < y.
C3_RewriteResult ==
    /\ [][\A p \in Positions(body) :
            LET s == StmtAt(body, p) IN
            (HandedNow(p) /\ IsCond(s) /\ s.subcode \in OrderedCodes) =>
                /\ IsZero(s.ops[2]) =>
                     \A sub \in SignedSubDefs(body, s.ops[1]) :
                        StmtAt(body', p)
                          = GimpleCond(s.subcode, sub.ops[2], sub.ops[3])
                /\ IsZero(s.ops[1]) =>
                     \A sub \in SignedSubDefs(body, s.ops[2]) :
                        StmtAt(body', p)
                          = GimpleCond(s.subcode, sub.ops[3], sub.ops[2])]_vars
    /\ [](\A t \in {F1Template,
                    [F1Template EXCEPT !.c2 = <<"LT_EXPR", "x", "y">>]} :
            (orig = MkBody(t) /\ execs >= 1) =>
                CondsOf(body)
                  = {<<Cond1Block, "GT_EXPR", <<X_int, Y_int>> >>,
                     <<Cond2Block(t.shape), "LT_EXPR", <<X_int, Y_int>> >>})

\* C3 witness: a finished run that rewrote one comparison of each case.
C3_Witness ==
    /\ pc = "done"
    /\ \E p \in Positions(orig) :
          /\ MatchesIdentity(orig, p) /\ IsZero(StmtAt(orig, p).ops[2])
          /\ StmtAt(body, p) # StmtAt(orig, p)
    /\ \E p \in Positions(orig) :
          /\ MatchesIdentity(orig, p) /\ IsZero(StmtAt(orig, p).ops[1])
          /\ StmtAt(body, p) # StmtAt(orig, p)

\* C4: a step changes a statement only if it is a comparison with an ordered
\* operator, one operand the integer constant 0 and the other a value defined
\* by a subtraction of two signed-integer typed operands.
C4_ExactMatchScoping ==
    [][\A p \in Positions(body) :
          (p \notin Positions(body') \/ StmtAt(body', p) # StmtAt(body, p))
             => MatchesIdentity(body, p)]_vars

\* C4 witness: a finished run that visited, and left alone, a comparison with
\* a nonzero constant and an inequality test of a signed difference with 0.
C4_Witness ==
    /\ pc = "done"
    /\ body = orig
    /\ \E p \in Positions(orig) : LET s == StmtAt(orig, p) IN
          /\ calls[p] = 1 /\ IsCond(s) /\ s.subcode = "NE_EXPR"
          /\ SignedSubDefs(orig, s.ops[1]) # {} /\ IsZero(s.ops[2])
    /\ \E p \in Positions(orig) : LET s == StmtAt(orig, p) IN
          /\ calls[p] = 1 /\ IsCond(s) /\ s.subcode \in OrderedCodes
          /\ SignedSubDefs(orig, s.ops[1]) # {}
          /\ s.ops[2].tc = "INTEGER_CST" /\ s.ops[2].val = 1

\* ------------------------------------------------------------ evaluation

RECURSIVE Pow2(_)
Pow2(n) == IF n = 0 THEN 1 ELSE 2 * Pow2(n - 1)

\* The values of a signed integer type of precision prec.
IntRange(prec) == (0 - Pow2(prec - 1))..(Pow2(prec - 1) - 1)

\* Two's complement wrap-around of v to precision prec.
Wrap(v, prec) == ((v + Pow2(prec - 1)) % Pow2(prec)) - Pow2(prec - 1)

\* The mathematical result of the binary operation code.
Arith(code, a, b) == IF code = "MINUS_EXPR" THEN a - b ELSE a + b

\* The run-time value of the operand t in fn when the parameters have the
\* values en: a constant's value, a parameter's value, or the wrapped result
\* of the defining statement.
RECURSIVE Value(_, _, _)
Value(fn, en, t) ==
    IF t.tc # "SSA_NAME" THEN t.val
    ELSE LET def == SSA_NAME_DEF_STMT(fn, t) IN
         IF is_gimple_assign(def)
         THEN Wrap(Arith(def.subcode, Value(fn, en, def.ops[2]),
                         Value(fn, en, def.ops[3])), t.type.prec)
         ELSE en[t.name]

\* Computing t overflows: some operation on the way has a mathematical
\* result that its type cannot represent.
RECURSIVE Overflows(_, _, _)
Overflows(fn, en, t) ==
    IF t.tc # "SSA_NAME" THEN FALSE
    ELSE LET def == SSA_NAME_DEF_STMT(fn, t) IN
         IF is_gimple_assign(def)
         THEN \/ Overflows(fn, en, def.ops[2])
              \/ Overflows(fn, en, def.ops[3])
              \/ Arith(def.subcode, Value(fn, en, def.ops[2]),
                       Value(fn, en, def.ops[3])) \notin IntRange(t.type.prec)
         ELSE FALSE

Compare(code, a, b) ==
    CASE code = "LT_EXPR" -> a < b
      [] code = "LE_EXPR" -> a <= b
      [] code = "GT_EXPR" -> a > b
      [] code = "GE_EXPR" -> a >= b
      [] code = "EQ_EXPR" -> a = b
      [] OTHER -> a # b

\* Whether the condition stmt of fn takes its true edge.
Taken(fn, en, stmt) ==
    Compare(stmt.subcode, Value(fn, en, stmt.ops[1]), Value(fn, en, stmt.ops[2]))

\* Functions of int parameters whose first condition compares d with 0 by an
\* ordered operator, run with every pair of values of x and y.
EvalTemplates ==
    {t \in AllTemplates :
        /\ t.shape = F1Template.shape /\ t.dloc = F1Template.dloc
        /\ t.tp = <<INT, INT>>
        /\ t.dv[3] = "MINUS_EXPR"
        /\ t.c1[1] \in OrderedCodes
        /\ <<t.c1[2], t.c1[3]>> \in {<<"d", "0">>, <<"0", "d">>}
        /\ t.c2 = <<"GE_EXPR", "0", "e">>
        /\ SSAValid(MkBody(t), MkSuccs(t.shape))}

InitEval ==
    \E t \in EvalTemplates, fw \in {0, 1},
       vx \in IntRange(Prec), vy \in IntRange(Prec) : InitWith(t, 1, fw, vx, vy)

SpecEval == InitEval /\ [][Next]_vars

\* C1: whenever computing a condition's operands does not overflow, the
\* condition takes the same branch in the current body as in the body the
\* pass was given: (x - y) OP 0 agrees with x OP y, and 0 OP (x - y) with
\* y OP x, for every pair of values and every ordered operator OP.
C1_Soundness ==
    \A p \in Positions(orig) :
        LET s == StmtAt(orig, p) IN
        (IsCond(s) /\ ~Overflows(orig, env, s.ops[1])
                   /\ ~Overflows(orig, env, s.ops[2]))
            => Taken(body, env, StmtAt(body, p)) = Taken(orig, env, s)

\* C1 witness: a rewritten comparison of 0 with a difference that does not
\* overflow and is negative.
C1_Witness ==
    \E p \in Positions(orig) :
        LET s == StmtAt(orig, p) IN
        /\ IsCond(s) /\ StmtAt(body, p) # s
        /\ IsZero(s.ops[1])
        /\ ~Overflows(orig, env, s.ops[2])
        /\ Value(orig, env, s.ops[2]) < 0

\* C2: with the optimization flag off or wrap-around on, an invocation of the
\* pass walks nothing, hands nothing to the rewriter and leaves the body as
\* it was; with the flag on and wrap-around off, an invocation executes.
C2_GateCorrectness ==
    /\ (flag_tree_cmp = 0 \/ flag_wrapv # 0) =>
          /\ body = orig
          /\ pc = "idle" /\ worklist = <<>> /\ execs = 0
          /\ \A b \in Blocks : visits[b] = 0
          /\ \A p \in DOMAIN calls : calls[p] = 0
    /\ (flag_tree_cmp # 0 /\ flag_wrapv = 0 /\ invocations >= 1) =>
          pc \in {"walk", "done"}

\* C2 witness: the pass was invoked with wrap-around on, on a body that has
\* a comparison of the identity's shape.
C2_Witness ==
    /\ flag_tree_cmp = 1 /\ flag_wrapv = 1
    /\ invocations >= 1
    /\ \E p \in Positions(body) : MatchesIdentity(body, p)

\* The comparison at p has the identity's shape and its subtraction has the
\* constant 0 as one operand and as the other a value that is itself defined
\* by a subtraction of signed integers.
ChainedMatch(fn, p) ==
    /\ MatchesIdentity(fn, p)
    /\ \E sub \in SignedSubDefs(fn, StmtAt(fn, p).ops[1])
                    \cup SignedSubDefs(fn, StmtAt(fn, p).ops[2]) :
          \/ IsZero(sub.ops[3]) /\ SignedSubDefs(fn, sub.ops[2]) # {}
          \/ IsZero(sub.ops[2]) /\ SignedSubDefs(fn, sub.ops[3]) # {}

\* C5 as claimed: once the pass has executed, executing it again changes
\* nothing, whatever the function body.
C5_Idempotence == [][execs >= 1 => body' = body]_vars

\* C5 amended: once the pass has executed, executing it again changes
\* nothing, for every body with no comparison whose subtraction has the
\* operands 0 and a value itself defined by a signed subtraction.
C5_IdempotenceUnchained ==
    [][(execs >= 1 /\ ~\E p \in Positions(orig) : ChainedMatch(orig, p))
          => body' = body]_vars

\* C5 witness: a second execution has finished on a body the first execution
\* rewrote and that has no chained subtraction.
C5_Witness ==
    /\ execs = 2
    /\ body # orig
    /\ ~\E p \in Positions(orig) : ChainedMatch(orig, p)

\* C6: a step keeps the CFG edges, the blocks and the number of statements of
\* each, every statement that is no condition, and every condition's
\* operator; a condition it changes no longer uses the difference it
\* compared with 0.
C6_FrameEffect ==
    [][/\ succs' = succs
       /\ DOMAIN body' = DOMAIN body
       /\ \A b \in DOMAIN body : Len(body'[b]) = Len(body[b])
       /\ \A p \in Positions(body) :
            LET s == StmtAt(body, p)
                n == StmtAt(body', p) IN
            /\ ~IsCond(s) => n = s
            /\ IsCond(s) => IsCond(n) /\ n.subcode = s.subcode
            /\ n # s => \A v \in UsedNames(s) :
                           SignedSubDefs(body, v) # {} => v \notin UsedNames(n)]_vars

\* C6 witness: a run has rewritten a comparison and the subtraction that
\* defined its operand is still in the body.
C6_Witness ==
    \E p \in Positions(orig) :
        /\ StmtAt(body, p) # StmtAt(orig, p)
        /\ \E v \in UsedNames(StmtAt(orig, p)) :
              SignedSubDefs(body, v) # {} /\ v \notin UsedNames(StmtAt(body, p))

\* C7: when every block is reachable from the entry, a started walk ends,
\* and when it has ended after_dom_children has been called exactly once on
\* every block and optimize_signed_comparison exactly once on every
\* condition; no block or condition is visited twice, no other statement is
\* handed to the rewriter.
C7_TraversalCoverage ==
    /\ [](Reachable(succs) = Blocks =>
            /\ \A b \in Blocks : visits[b] <= 1
            /\ \A p \in DOMAIN calls :
                  /\ calls[p] <= 1
                  /\ calls[p] > 0 => IsCond(StmtAt(orig, p))
            /\ pc = "done" =>
                  /\ \A b \in Blocks : visits[b] = 1
                  /\ \A p \in DOMAIN calls :
                        IsCond(StmtAt(orig, p)) => calls[p] = 1)
    /\ (pc = "walk") ~> (pc = "done")

\* C7 witness: a walk has ended with both conditions handed to the rewriter.
C7_Witness ==
    /\ pc = "done"
    /\ \A b \in Blocks : visits[b] = 1
    /\ Cardinality({p \in DOMAIN calls : calls[p] = 1}) = 2

C10_SSAValidity ==
    LET D == Dominators(succs) IN
    \A p \in Positions(body) : \A u \in UsedNames(StmtAt(body, p)) :
        IF DefPositions(orig, u) = {}
        THEN DefPositions(body, u) = {}
        ELSE /\ Cardinality(DefPositions(body, u)) = 1
             /\ \A q \in DefPositions(body, u) : DefDominatesUse(D, q, p)

\* C10 witness: a rewritten condition uses a value defined by a statement in
\* another block.
C10_Witness ==
    \E p \in Positions(orig) :
        /\ StmtAt(body, p) # StmtAt(orig, p)
        /\ \E u \in UsedNames(StmtAt(body, p)) :
              \E q \in DefPositions(body, u) : q[1] # p[1]

\* C8: when every condition has been visited exactly once, in whatever
\* order, the body is the one the dominator-order walk produces.
C8_OrderIndependence ==
    (\A p \in DOMAIN calls : gimple_code(StmtAt(orig, p)) = "GIMPLE_COND" => calls[p] = 1)
        => body = PassResult(orig, succs)

\* C8 witness: both conditions were visited, both were rewritten, and both
\* compared the same difference.
C8_Witness ==
    /\ \A p \in DOMAIN calls : IsCond(StmtAt(orig, p)) => calls[p] = 1
    /\ \E p \in DOMAIN calls, q \in DOMAIN calls :
          /\ p # q
          /\ StmtAt(body, p) # StmtAt(orig, p)
          /\ StmtAt(body, q) # StmtAt(orig, q)
          /\ UsedNames(StmtAt(orig, p)) = UsedNames(StmtAt(orig, q))

====
